---- MODULE Spec2Model ----
(***************************************************************************)
(* AI provider orchestration of doc-comp-qar: the AIProviderManager        *)
(* (provider registry, stored configs, fallback chain, generateResponse    *)
(* with its failover, analyzeDocument, detectComplianceGaps, setProvider)  *)
(* and the usage tracking of AuroraAIService; updateProviderConfig,        *)
(* getProviderStatus and switchToBestProvider; a BedrockProvider used on   *)
(* its own (responses, wire requests, analysis prompts); and AIService     *)
(* with its conversation histories.                                        *)
(*                                                                         *)
(* JavaScript runs one continuation at a time: a handler runs from one     *)
(* await to the next without interleaving.  The call's positions "start"   *)
(* and "catch" are inside such a run; every other action waits for them    *)
(* (Quiescent).                                                            *)
(***************************************************************************)
EXTENDS Integers, Sequences, FiniteSets, TLC

VARIABLES
  currentProvider,    \* AIProviderManager.currentProvider
  providers,          \* AIProviderManager.providers: type -> instance
  configs,            \* AIProviderManager.configs: type -> stored config
  fallbackProviders,  \* AIProviderManager.fallbackProviders
  initPc,             \* the constructor's initializeProviders(): pending, done
  setPc,              \* the setProvider call in progress: idle, awaitSetup, awaitDone
  setArg,             \* its arguments and what it read before its first await
  callPc,             \* the facade call in progress: idle, start, awaitCall, catch, resume, done
  callOp,             \* which facade method it is
  primary,            \* the provider of the outermost call
  loops,              \* the tryFallbackProviders activations, outermost first
  inflight,           \* the provider response the pending invocation will report
  lastError,          \* the error being thrown or delivered
  outcome,            \* what the call's promise settled with
  attempts,           \* history: the provider attempts of this call, in order
  callInfo,           \* history: what the call was started with
  usageRows,          \* rows of ai_usage_tracking written through trackUsage
  chainArg,           \* history: the list passed to the latest setFallbackProviders
  bpConfig,           \* BedrockProvider.config of a provider instance used on its own
  bpEndpoint,         \* BedrockProvider.endpoint of that instance
  probe,              \* the latest operation on that instance and what it settled with
  aiUsageTracking,    \* table ai_usage_tracking as track_ai_usage fills it
  built,              \* the latest wire request or analysis prompt a provider built
  demoEnv,            \* the DEMO_MODE environment variable the constants module read
  conversationHistory,\* AIService.conversationHistory: project -> its array (0: no entry)
  arrays,             \* the ChatMessage[] arrays that exist, by reference
  chats,              \* the chatWithDocuments calls, in call order, and where each is
  svcLog,             \* history: what AIService returned, reached and cleared
  mgrLog              \* the latest updateProviderConfig and getProviderStatus /
                      \* switchToBestProvider calls: where they are, what they returned

vars == <<currentProvider, providers, configs, fallbackProviders, initPc, setPc,
          setArg, callPc, callOp, primary, loops, inflight, lastError, outcome,
          attempts, callInfo, usageRows, chainArg, bpConfig, bpEndpoint, probe,
          aiUsageTracking, built, demoEnv, conversationHistory, arrays, chats, svcLog, mgrLog>>

bpVars == <<bpConfig, bpEndpoint, probe, aiUsageTracking, built>>
svcVars == <<demoEnv, conversationHistory, arrays, chats, svcLog>>
mgrVars == <<currentProvider, providers, configs, fallbackProviders>>
setVars == <<setPc, setArg>>
callVars == <<callPc, callOp, primary, loops, inflight, lastError, outcome,
              attempts, callInfo>>

(***************************************************************************)
(* Bounds of the model.                                                    *)
(***************************************************************************)
\* tryFallbackProviders activations kept; deeper ones slide out of the window
MaxDepth == 1
\* attempts kept in the history
MaxAttempts == 3
\* setFallbackProviders calls that change the chain while one facade call is in progress
MaxChainChanges == 1
\* rows kept in ai_usage_tracking
MaxUsage == 1
\* chatWithDocuments calls made
MaxChats == 3

(***************************************************************************)
(* Values.                                                                 *)
(***************************************************************************)
\* AIProviderType
AIProviderType == {"bedrock", "openai", "claude", "azure", "local"}

\* a key that the object literal does not have
ABSENT == "absent"

\* the model ids BedrockProvider.listAvailableModels returns (a part of them)
SupportedModels ==
  {"anthropic.claude-3-sonnet-20240229-v1:0", "meta.llama2-13b-chat-v1",
   "amazon.titan-text-express-v1", "ai21.j2-ultra-v1", "cohere.command-text-v14"}

\* setupBedrockProvider's defaultConfig before the caller's config is spread over it
DefaultBedrockConfig ==
  [region |-> "us-east-1", modelId |-> "anthropic.claude-3-sonnet-20240229-v1:0"]

\* configs.get(p) of a provider with no stored config
NoConfig == [region |-> "undefined", modelId |-> "undefined"]

\* providers.get(p) of a provider with no instance
NoInstance == [kind |-> "none", config |-> NoConfig]

\* the configs callers pass to setProvider('bedrock', .)
BedrockInputs ==
  { [region |-> "eu-west-1", modelId |-> "meta.llama2-13b-chat-v1"],
    [region |-> "", modelId |-> ABSENT] }

\* the configs callers pass to setProvider of a placeholder provider
PlaceholderInputs == { [region |-> ABSENT, modelId |-> "gpt-4-turbo"] }

\* configs with credentials, as callers pass them to setProvider
SecretBedrockInputs ==
  { [region |-> "us-west-2", modelId |-> ABSENT, apiKey |-> ABSENT,
     secretAccessKey |-> "aws-secret-1"] }
SecretPlaceholderInputs ==
  { [region |-> ABSENT, modelId |-> ABSENT, apiKey |-> "sk-live-1",
     secretAccessKey |-> ""] }

\* the placeholder providers callers register
PlaceholderTypes == {"openai", "claude"}

\* the updates callers pass to updateProviderConfig
ConfigUpdateInputs ==
  { [region |-> "eu-west-1", modelId |-> ABSENT],
    [region |-> ABSENT, modelId |-> "gpt-4-turbo"] }

\* the providers callers register, put in chains and ask for
RegisteredInputs == {"bedrock", "openai"}
OverrideInputs == {"none", "bedrock", "openai", "claude"}

\* { ...defaults, ...config }: a key of config wins whenever config has it
Spread(defaults, config) ==
  [f \in DOMAIN defaults \cup DOMAIN config |->
     IF f \in DOMAIN config /\ (config[f] # ABSENT \/ f \notin DOMAIN defaults)
     THEN config[f] ELSE defaults[f]]

\* BedrockProvider.initialize: region and model id set, model available
InitializeOk(cfg) ==
  /\ cfg.region # ""
  /\ cfg.modelId # ""
  /\ cfg.modelId \in SupportedModels

\* new BedrockProvider(config)
BedrockInstance(cfg) == [kind |-> "bedrock", config |-> cfg]

\* the object literal set up by setupOpenAIProvider and its siblings
PlaceholderInstance(cfg) == [kind |-> "placeholder", config |-> cfg]

\* config?.modelId || '<default of the provider type>'
PlaceholderDefaultModel(p) ==
  CASE p = "openai" -> "gpt-4"
    [] p = "claude" -> "claude-3-sonnet"
    [] p = "azure" -> "gpt-4"
    [] OTHER -> "local-llm"

\* the methods an instance has
HasMethod(inst, method) ==
  CASE inst.kind = "bedrock" -> TRUE
    [] inst.kind = "placeholder" -> method = "generateResponse"
    [] OTHER -> FALSE

\* the model field of the response the instance's method resolves with
ReportedModel(p, inst) ==
  IF inst.kind = "bedrock" THEN inst.config.modelId
  ELSE IF inst.config.modelId \in {ABSENT, "", "undefined"}
       THEN PlaceholderDefaultModel(p)
       ELSE inst.config.modelId

\* whether the invocation can reject: the placeholders always resolve
CanFail(inst) == inst.kind = "bedrock"

Last(s) == s[Len(s)]
Front(s) == SubSeq(s, 1, Len(s) - 1)

\* the lists callers pass to setFallbackProviders
FallbackInputs ==
  { <<>>, <<"bedrock">>, <<"openai">>, <<"bedrock", "openai">>, <<"openai", "bedrock">>,
    <<"claude", "openai">> }

NoError == [kind |-> "none", provider |-> "none"]
NoOutcome == [type |-> "none", provider |-> "none", model |-> "none", error |-> NoError]
NoInflight == [model |-> "none", canFail |-> FALSE]
NoCall == [useProvider |-> "none", current |-> "none", iterated |-> <<>>,
           chainChanges |-> 0, slid |-> FALSE, full |-> FALSE]

\* history: no updateProviderConfig call yet
NoUpdate == [p |-> "none", updates |-> NoConfig, previous |-> NoConfig,
             current |-> "none", result |-> "none"]

\* history: no getProviderStatus / switchToBestProvider call yet
NoStatus == [present |-> FALSE]
NoStatusCall == [pc |-> "idle", op |-> "none", awaiting |-> "none",
                 status |-> [p \in AIProviderType |-> NoStatus],
                 current |-> "none", result |-> "none"]

NoMgrLog == [update |-> NoUpdate, statusCall |-> NoStatusCall]

NoSetArg == [p |-> "none", config |-> NoConfig, merged |-> NoConfig,
             oldConfig |-> NoConfig, oldInstance |-> NoInstance]

(***************************************************************************)
(* Construction.                                                           *)
(***************************************************************************)
\* a variant whose constructor registers the default Bedrock instance itself
RegisteredInConstructor ==
  [p \in AIProviderType |->
     IF p = "bedrock" THEN [kind |-> "bedrock", config |-> DefaultBedrockConfig]
     ELSE NoInstance]

\* providers = new Map(): the constructor starts initializeProviders() and returns
ConstructedProviders == [p \in AIProviderType |-> NoInstance]

ManagerInit ==
  /\ currentProvider = "bedrock"
  /\ providers = ConstructedProviders
  /\ configs = [p \in AIProviderType |-> NoConfig]
  /\ fallbackProviders = <<>>
  /\ initPc = "pending"
  /\ setPc = "idle"
  /\ setArg = NoSetArg
  /\ callPc = "idle"
  /\ callOp = "none"
  /\ primary = "none"
  /\ loops = <<>>
  /\ inflight = NoInflight
  /\ lastError = NoError
  /\ outcome = NoOutcome
  /\ attempts = <<>>
  /\ callInfo = NoCall
  /\ usageRows = <<>>
  /\ chainArg = <<>>
  /\ mgrLog = NoMgrLog

\* no handler is between two awaits
Quiescent == callPc \notin {"start", "catch"}

(***************************************************************************)
(* Configuration: the constructor's background initialization,             *)
(* setProvider, setFallbackProviders.                                      *)
(***************************************************************************)
\* initializeProviders -> setupBedrockProvider(): the part after await provider.initialize()
InitializeProviders ==
  /\ initPc = "pending"
  /\ Quiescent
  /\ providers' = [providers EXCEPT !["bedrock"] = BedrockInstance(DefaultBedrockConfig)]
  /\ configs' = [configs EXCEPT !["bedrock"] = DefaultBedrockConfig]
  /\ initPc' = "done"
  /\ UNCHANGED <<currentProvider, fallbackProviders, setVars, callVars, usageRows, chainArg, bpVars, svcVars, mgrLog>>

\* setProvider up to its first await: configs.set, then the provider's setup
SetProviderSteps(p, config) ==
  /\ setPc = "idle"
  /\ Quiescent
  /\ setArg' = [p |-> p, config |-> config,
                merged |-> Spread(DefaultBedrockConfig, config),
                oldConfig |-> configs[p], oldInstance |-> providers[p]]
  /\ IF p = "bedrock"
     THEN /\ configs' = [configs EXCEPT ![p] = config]
          /\ providers' = providers
          /\ setPc' = "awaitSetup"
     ELSE /\ configs' = [configs EXCEPT ![p] = config]
          /\ providers' = [providers EXCEPT ![p] = PlaceholderInstance(config)]
          /\ setPc' = "awaitDone"
  /\ UNCHANGED <<currentProvider, fallbackProviders, initPc, callVars, usageRows, chainArg, bpVars, svcVars>>

\* a caller invokes setProvider
SetProvider(p, config) ==
  /\ SetProviderSteps(p, config)
  /\ mgrLog' = mgrLog

\* updateProviderConfig: rejects without a stored config, otherwise
\* setProvider(providerType, { ...currentConfig, ...updates })
UpdateProviderConfig(p, updates) ==
  /\ setPc = "idle"
  /\ Quiescent
  /\ IF configs[p] = NoConfig
     THEN /\ mgrLog' = [mgrLog EXCEPT !.update =
                          [p |-> p, updates |-> updates, previous |-> NoConfig,
                           current |-> currentProvider, result |-> "rejected"]]
          /\ UNCHANGED <<mgrVars, initPc, setVars, callVars, usageRows, chainArg, bpVars, svcVars>>
     ELSE /\ SetProviderSteps(p, Spread(configs[p], updates))
          /\ mgrLog' = [mgrLog EXCEPT !.update =
                          [p |-> p, updates |-> updates, previous |-> configs[p],
                           current |-> currentProvider, result |-> "pending"]]

\* history: the setProvider that updateProviderConfig awaits has settled
UpdateSettled(result) ==
  IF mgrLog.update.result = "pending" THEN [mgrLog EXCEPT !.update.result = result]
  ELSE mgrLog

\* setupBedrockProvider after await provider.initialize(): register, or rethrow
SetupBedrockProvider ==
  /\ setPc = "awaitSetup"
  /\ Quiescent
  /\ initPc = "done"
  /\ IF InitializeOk(setArg.merged)
     THEN /\ providers' = [providers EXCEPT !["bedrock"] = BedrockInstance(setArg.merged)]
          /\ configs' = [configs EXCEPT !["bedrock"] = setArg.merged]
          /\ setPc' = "awaitDone"
          /\ setArg' = setArg
     ELSE /\ setPc' = "idle"
          /\ setArg' = NoSetArg
          /\ UNCHANGED <<providers, configs>>
  /\ mgrLog' = IF InitializeOk(setArg.merged) THEN mgrLog ELSE UpdateSettled("rejected")
  /\ UNCHANGED <<currentProvider, fallbackProviders, initPc, callVars, usageRows, chainArg, bpVars, svcVars>>

\* setProvider after await this.setupXProvider(config)
SetProviderDone ==
  /\ setPc = "awaitDone"
  /\ Quiescent
  /\ currentProvider' = setArg.p
  /\ setPc' = "idle"
  /\ setArg' = NoSetArg
  /\ mgrLog' = UpdateSettled("resolved")
  /\ UNCHANGED <<providers, configs, fallbackProviders, initPc, callVars, usageRows, chainArg, bpVars, svcVars>>

\* a variant that keeps every identifier of the list
KeepAll(list) == list

\* providers.filter(p => this.providers.has(p))
FilterRegistered(list) == SelectSeq(list, LAMBDA p : providers[p].kind # "none")

SetFallbackProviders(list) ==
  /\ Quiescent
  /\ fallbackProviders' = FilterRegistered(list)
  /\ chainArg' = list
  /\ IF callPc \in {"idle", "done"} \/ FilterRegistered(list) = fallbackProviders
     THEN callInfo' = callInfo
     ELSE /\ callInfo.chainChanges < MaxChainChanges
          /\ callInfo' = [callInfo EXCEPT !.chainChanges = @ + 1]
  /\ UNCHANGED <<currentProvider, providers, configs, initPc, setVars, callPc, callOp,
                 primary, loops, inflight, lastError, outcome, attempts, usageRows, bpVars, svcVars, mgrLog>>

(***************************************************************************)
(* The facade calls: generateResponse with its failover,                   *)
(* analyzeDocument, detectComplianceGaps.                                  *)
(***************************************************************************)
FacadeOps == {"generateResponse", "analyzeDocument", "detectComplianceGaps"}

\* a variant that ignores options.useProvider
PrimaryIgnoresOverride(useProvider, current) == current

\* a variant that walks the chain from its end
TopProviderReversed ==
  IF loops = <<>> THEN primary
  ELSE Last(loops).chain[Len(Last(loops).chain) - Last(loops).idx + 1]

\* options?.useProvider || this.currentProvider
PrimaryProvider(useProvider, current) ==
  IF useProvider # "none" THEN useProvider ELSE current

\* the provider of the innermost generateResponse activation, and its chain position
TopProvider == IF loops = <<>> THEN primary ELSE Last(loops).chain[Last(loops).idx]
TopPos == IF loops = <<>> THEN 0 ELSE Last(loops).idx

\* history: an attempt of provider p at chain position TopPos, nested Len(loops) deep
Attempt(p, res, err) ==
  [p |-> p, pos |-> TopPos, depth |-> Len(loops), res |-> res, err |-> err]

\* history: one more attempt, while the history has room
Logged(a) == IF Len(attempts) < MaxAttempts THEN Append(attempts, a) ELSE attempts

\* history: the pending attempt has settled
Settled(res, err) ==
  IF attempts # <<>> /\ Last(attempts).res = "pending"
  THEN [attempts EXCEPT ![Len(attempts)].res = res, ![Len(attempts)].err = err]
  ELSE attempts

\* a caller invokes a facade method; generateResponse alone takes options.useProvider
FacadeCall(op, useProvider) ==
  /\ callPc = "idle"
  /\ callPc' = "start"
  /\ callOp' = op
  /\ primary' = PrimaryProvider(useProvider, currentProvider)
  /\ loops' = <<>>
  /\ callInfo' = [useProvider |-> useProvider, current |-> currentProvider,
                  iterated |-> <<>>, chainChanges |-> 0,
                  slid |-> FALSE, full |-> FALSE]
  /\ UNCHANGED <<mgrVars, initPc, setVars, inflight, lastError, outcome, attempts, usageRows, chainArg, bpVars, svcVars, mgrLog>>

GenerateResponse(useProvider) == FacadeCall("generateResponse", useProvider)
AnalyzeDocument == FacadeCall("analyzeDocument", "none")
DetectComplianceGaps == FacadeCall("detectComplianceGaps", "none")

\* the try block up to the await: providers.get(provider), then callProvider
CallProvider ==
  /\ callPc = "start"
  /\ LET p == TopProvider
         inst == providers[p]
         kind == IF inst.kind = "none" THEN "NotInitialized"
                 ELSE IF ~HasMethod(inst, callOp) THEN "MethodNotAvailable"
                 ELSE "none"
     IN /\ callInfo' = IF Len(attempts) < MaxAttempts THEN callInfo
                       ELSE [callInfo EXCEPT !.full = TRUE]
        /\ IF kind # "none"
           THEN /\ lastError' = [kind |-> kind, provider |-> p]
                /\ attempts' = Logged(Attempt(p, "failed", kind))
                /\ callPc' = "catch"
                /\ inflight' = inflight
           ELSE /\ inflight' = [model |-> ReportedModel(p, inst), canFail |-> CanFail(inst)]
                /\ attempts' = Logged(Attempt(p, "pending", "none"))
                /\ callPc' = "awaitCall"
                /\ lastError' = lastError
  /\ UNCHANGED <<mgrVars, initPc, setVars, callOp, primary, loops, outcome, usageRows, chainArg, bpVars, svcVars, mgrLog>>

\* standardizeResponse(response, provider)
StandardizeResponse(response, provider) ==
  [type |-> "resolved", provider |-> provider,
   model |-> IF response.model = "" THEN "unknown" ELSE response.model,
   error |-> NoError]

\* the promise settles with this error
Rejected(err) ==
  [type |-> "rejected", provider |-> "none", model |-> "none", error |-> err]

\* what a rejection tells the caller about the attempts: the error of one
\* attempt is that attempt's; new Error('All providers failed, including
\* fallbacks') has a message and nothing else
ErrorAttempts(err) ==
  IF err.kind = "AllProvidersFailed" THEN <<>> ELSE <<err>>

\* the activations that would receive the error slid out of the window
Truncated == [type |-> "truncated", provider |-> "none", model |-> "none", error |-> NoError]

\* the invocation settles.  On success every enclosing activation returns the
\* response as it is (return response; return this.tryFallbackProviders(...))
ProviderSettles(ok) ==
  /\ callPc = "awaitCall"
  /\ ok \/ inflight.canFail
  /\ IF ok
     THEN /\ outcome' = StandardizeResponse(inflight, TopProvider)
          /\ attempts' = Settled("ok", "none")
          /\ callPc' = "done"
          /\ loops' = <<>>
          /\ lastError' = lastError
     ELSE /\ lastError' = [kind |-> "InvocationFailed", provider |-> TopProvider]
          /\ attempts' = Settled("failed", "InvocationFailed")
          /\ callPc' = "catch"
          /\ UNCHANGED <<outcome, loops>>
  /\ inflight' = NoInflight
  /\ UNCHANGED <<mgrVars, initPc, setVars, callOp, primary, callInfo, usageRows, chainArg, bpVars, svcVars, mgrLog>>

\* one more tryFallbackProviders activation; beyond MaxDepth the outermost kept one slides out
Pushed(frame) ==
  IF Len(loops) < MaxDepth THEN Append(loops, frame) ELSE Append(Tail(loops), frame)

\* the catch block: generateResponse falls back when the chain is not empty,
\* the other methods (and an empty chain) rethrow
CatchError ==
  /\ callPc = "catch"
  /\ IF callOp = "generateResponse" /\ Len(fallbackProviders) > 0
     THEN /\ loops' = Pushed([chain |-> fallbackProviders, idx |-> 1])
          /\ callInfo' = [callInfo EXCEPT
                            !.slid = @ \/ Len(loops) >= MaxDepth,
                            !.iterated = IF loops = <<>> /\ ~callInfo.slid
                                         THEN fallbackProviders ELSE @]
          /\ callPc' = "start"
          /\ outcome' = outcome
     ELSE /\ IF loops = <<>>
             THEN /\ outcome' = IF callInfo.slid THEN Truncated ELSE Rejected(lastError)
                  /\ callPc' = "done"
             ELSE /\ outcome' = outcome
                  /\ callPc' = "resume"
          /\ UNCHANGED <<loops, callInfo>>
  /\ UNCHANGED <<mgrVars, initPc, setVars, callOp, primary, inflight, lastError,
                 attempts, usageRows, chainArg, bpVars, svcVars, mgrLog>>

\* tryFallbackProviders after its await rejected: continue with the next entry,
\* or throw 'All providers failed, including fallbacks' out of the activation
\* that returned this loop's promise
TryFallbackProviders ==
  /\ callPc = "resume"
  /\ LET top == Last(loops)
     IN IF top.idx < Len(top.chain)
        THEN /\ loops' = [loops EXCEPT ![Len(loops)].idx = top.idx + 1]
             /\ callPc' = "start"
             /\ UNCHANGED <<lastError, outcome>>
        ELSE /\ loops' = Front(loops)
             /\ lastError' = [kind |-> "AllProvidersFailed", provider |-> "none"]
             /\ IF Front(loops) = <<>>
                THEN /\ outcome' = IF callInfo.slid THEN Truncated
                                   ELSE Rejected([kind |-> "AllProvidersFailed",
                                                  provider |-> "none"])
                     /\ callPc' = "done"
                ELSE /\ outcome' = outcome
                     /\ callPc' = "resume"
  /\ UNCHANGED <<mgrVars, initPc, setVars, callOp, primary, inflight, attempts,
                 callInfo, usageRows, chainArg, bpVars, svcVars, mgrLog>>

\* the caller takes the settled promise
ReturnToCaller ==
  /\ callPc = "done"
  /\ callPc' = "idle"
  /\ callOp' = "none"
  /\ primary' = "none"
  /\ loops' = <<>>
  /\ inflight' = NoInflight
  /\ lastError' = NoError
  /\ outcome' = NoOutcome
  /\ attempts' = <<>>
  /\ callInfo' = NoCall
  /\ UNCHANGED <<mgrVars, initPc, setVars, usageRows, chainArg, bpVars, svcVars, mgrLog>>

(***************************************************************************)
(* Usage tracking (AuroraAIService.trackUsage).                            *)
(***************************************************************************)
\* a variant that reads the flag from the environment alone
DemoModeFromEnv(env) == env = "true"

\* APP_CONSTANTS.DEMO_MODE: getEnvVar('DEMO_MODE') === 'true' || true
DemoModeOf(env) == (env = "true") \/ TRUE
DEMO_MODE == DemoModeOf("unset")

\* the usage records callers hand to trackUsage
UsageInputs == { [aiProvider |-> p, success |-> ok] : p \in RegisteredInputs, ok \in BOOLEAN }

\* trackUsage: in demo mode a mock object is returned and nothing is written;
\* otherwise track_ai_usage inserts one row
TrackUsage(usageData) ==
  /\ Quiescent
  /\ IF DEMO_MODE
     THEN usageRows' = usageRows
     ELSE /\ Len(usageRows) < MaxUsage
          /\ usageRows' = Append(usageRows, usageData)
  /\ UNCHANGED <<mgrVars, initPc, setVars, callVars, chainArg, bpVars, svcVars, mgrLog>>

(***************************************************************************)
(* BedrockProvider used on its own: getModelFamily, parseResponse,         *)
(* generateResponse, initialize, updateConfig; and the manager's           *)
(* standardizeResponse applied to what it returns.                         *)
(***************************************************************************)
\* a key the object does not have reads as undefined
UNDEF == "undefined"

\* a || b
Or(a, b) == IF a \in {UNDEF, ""} THEN b ELSE a

\* the model ids given to a provider instance
ModelIdInputs ==
  { "anthropic.claude-3-sonnet-20240229-v1:0", "meta.llama2-13b-chat-v1",
    "amazon.titan-text-express-v1", "ai21.j2-ultra-v1", "cohere.command-text-v14",
    "Anthropic.CLAUDE-v2", "claude-llama-merge", "cohere.titan-jurassic", "" }

\* the substrings of a model id that getModelFamily and the price table look for,
\* in the letter case the id has them
Parts(id) ==
  CASE id = "anthropic.claude-3-sonnet-20240229-v1:0" -> {"claude", "claude-3-sonnet"}
    [] id = "anthropic.claude-3-haiku-20240307-v1:0" -> {"claude", "claude-3-haiku"}
    [] id = "meta.llama2-13b-chat-v1" -> {"llama"}
    [] id = "amazon.titan-text-express-v1" -> {"titan"}
    [] id = "cohere.command-text-v14" -> {"cohere"}
    [] id = "Anthropic.CLAUDE-v2" -> {"CLAUDE"}
    [] id = "claude-llama-merge" -> {"claude", "llama"}
    [] id = "cohere.titan-jurassic" -> {"cohere", "titan", "jurassic"}
    [] OTHER -> {}

\* String.prototype.toLowerCase on those substrings
ToLowerCase(part) == IF part = "CLAUDE" THEN "claude" ELSE part

\* modelId.toLowerCase().includes(tag)
Includes(id, tag) == \E part \in Parts(id) : ToLowerCase(part) = tag

\* the checks of getModelFamily in the order the code makes them
TagChecks ==
  << [tag |-> "claude", family |-> "claude"], [tag |-> "llama", family |-> "llama"],
     [tag |-> "titan", family |-> "titan"], [tag |-> "jurassic", family |-> "ai21"],
     [tag |-> "cohere", family |-> "cohere"] >>

\* the first check of the list that matches decides; 'generic' when none does
RECURSIVE ClassifyBy(_, _)
ClassifyBy(checks, id) ==
  IF checks = <<>> THEN "generic"
  ELSE IF Includes(id, Head(checks).tag) THEN Head(checks).family
  ELSE ClassifyBy(Tail(checks), id)

\* getModelFamily
GetModelFamily(cfg) == ClassifyBy(TagChecks, cfg.modelId)

\* response.usage: no usage block, or one
UndefinedUsage ==
  [defined |-> FALSE, prompt_tokens |-> 0, completion_tokens |-> 0, total_tokens |-> 0]
WireUsage ==
  [defined |-> TRUE, prompt_tokens |-> 2, completion_tokens |-> 1, total_tokens |-> 3]

\* the JSON bodies the Bedrock endpoint answers with
WireInputs ==
  { [completion |-> t[1], generation |-> t[2], text |-> t[3], outputText |-> t[4],
     completionReason |-> r[1], stop_reason |-> r[2], usage |-> u] :
      t \in { <<UNDEF, UNDEF, UNDEF, UNDEF>>, <<"", UNDEF, UNDEF, UNDEF>>,
              <<"Hello", UNDEF, UNDEF, UNDEF>>, <<UNDEF, "Hello", UNDEF, UNDEF>>,
              <<UNDEF, UNDEF, "Hello", UNDEF>>, <<UNDEF, UNDEF, UNDEF, "Hello">> },
      r \in { <<UNDEF, UNDEF>>, <<"FINISH", UNDEF>>, <<UNDEF, "stop_sequence">> },
      u \in {UndefinedUsage, WireUsage} }

\* what a fetch can come to: a JSON object, the JSON value null, a body that is
\* not JSON, a status that is not ok, a rejected fetch
TransportInputs == {"body", "nullBody", "notJson", "notOk", "fetchRejects"}

\* no response
NoResponse ==
  [completion |-> UNDEF, content |-> UNDEF, text |-> UNDEF, stop_reason |-> UNDEF,
   usage |-> UndefinedUsage, model |-> UNDEF]

\* parseResponse
ParseResponse(cfg, response) ==
  LET family == GetModelFamily(cfg)
  IN CASE family = "claude" ->
            [NoResponse EXCEPT !.completion = response.completion,
                               !.stop_reason = response.stop_reason,
                               !.usage = response.usage, !.model = cfg.modelId]
       [] family = "llama" ->
            [NoResponse EXCEPT !.completion = response.generation,
                               !.stop_reason = Or(response.stop_reason, "end_turn"),
                               !.model = cfg.modelId]
       [] family = "titan" ->
            [NoResponse EXCEPT !.completion = Or(response.outputText, ""),
                               !.stop_reason = Or(response.completionReason, "finished"),
                               !.model = cfg.modelId]
       [] OTHER ->
            [NoResponse EXCEPT !.completion = Or(Or(response.completion, response.text), ""),
                               !.stop_reason = Or(response.stop_reason, "finished"),
                               !.model = cfg.modelId]

\* standardizeResponse: the content, usage, model and stop reason of the AIResponse
CanonicalResponse(response, provider) ==
  [content |-> Or(Or(Or(response.completion, response.content), response.text), ""),
   usage |-> response.usage,
   model |-> Or(response.model, "unknown"),
   provider |-> provider,
   stopReason |-> response.stop_reason]

\* no AIResponse
NoCanonical ==
  [content |-> UNDEF, usage |-> UndefinedUsage, model |-> UNDEF, provider |-> "none",
   stopReason |-> UNDEF]

\* `https://bedrock-runtime.${config.region}.amazonaws.com`
EndpointOf(region) == <<"https://bedrock-runtime.", region, ".amazonaws.com">>

\* the configs a provider instance is constructed with
ProviderConfigInputs == [region : {"us-east-1", ""}, modelId : ModelIdInputs]

\* the partial configs passed to updateConfig
UpdateInputs ==
  { [region |-> "", modelId |-> ABSENT], [region |-> "eu-west-1", modelId |-> ABSENT],
    [region |-> ABSENT, modelId |-> "amazon.titan-text-express-v1"],
    [region |-> ABSENT, modelId |-> ""] }

NoWire ==
  [completion |-> UNDEF, generation |-> UNDEF, text |-> UNDEF, outputText |-> UNDEF,
   completionReason |-> UNDEF, stop_reason |-> UNDEF, usage |-> UndefinedUsage]

NoSql == [provider |-> "none", model |-> "none", raised |-> FALSE]

\* nothing was done with the instance yet
NoProbe ==
  [op |-> "none", config |-> NoConfig, update |-> NoConfig, family |-> "none",
   transport |-> "none", wire |-> NoWire, fetched |-> FALSE, result |-> "none",
   error |-> "none", response |-> NoResponse, canonical |-> NoCanonical, sql |-> NoSql]

\* BedrockProvider.initialize
BedrockInitialize ==
  /\ probe' = [NoProbe EXCEPT !.op = "initialize", !.config = bpConfig,
                              !.result = IF InitializeOk(bpConfig) THEN "resolved"
                                         ELSE "rejected",
                              !.error = IF InitializeOk(bpConfig) THEN "none"
                                        ELSE "ConfigError"]
  /\ UNCHANGED <<mgrVars, initPc, setVars, callVars, usageRows, chainArg, svcVars, mgrLog, bpConfig,
                 bpEndpoint, aiUsageTracking, built>>

\* BedrockProvider.updateConfig
BedrockUpdateConfig(newConfig) ==
  /\ bpConfig' = Spread(bpConfig, newConfig)
  /\ bpEndpoint' = EndpointOf(bpConfig'.region)
  /\ probe' = [NoProbe EXCEPT !.op = "updateConfig", !.config = bpConfig,
                              !.update = newConfig, !.result = "resolved"]
  /\ UNCHANGED <<mgrVars, initPc, setVars, callVars, usageRows, chainArg, svcVars, mgrLog, aiUsageTracking, built>>

\* BedrockProvider.generateResponse, from buildRequest to the settled promise:
\* the request is built and fetched whatever the config holds; every throw of
\* callBedrock and parseResponse is rethrown as 'Failed to generate response'
BedrockGenerateResponse(transport, wire) ==
  /\ transport = "body" \/ wire = NoWire
  /\ LET parsed == ParseResponse(bpConfig, wire)
     IN probe' = [NoProbe EXCEPT
                    !.op = "generateResponse", !.config = bpConfig,
                    !.family = GetModelFamily(bpConfig),
                    !.transport = transport, !.wire = wire, !.fetched = TRUE,
                    !.result = IF transport = "body" THEN "resolved" ELSE "rejected",
                    !.error = IF transport = "body" THEN "none" ELSE "GenerationFailed",
                    !.response = IF transport = "body" THEN parsed ELSE NoResponse,
                    !.canonical = IF transport = "body"
                                  THEN CanonicalResponse(parsed, "bedrock")
                                  ELSE NoCanonical]
  /\ UNCHANGED <<mgrVars, initPc, setVars, callVars, usageRows, chainArg, svcVars, mgrLog, bpConfig,
                 bpEndpoint, aiUsageTracking, built>>

(***************************************************************************)
(* The database functions calculate_ai_usage_cost and track_ai_usage.      *)
(* Costs are in units of 0.000001, the scale of DECIMAL(10,6).             *)
(***************************************************************************)
\* a PL/pgSQL CASE statement with no ELSE raises case_not_found when no WHEN
\* matches; otherwise the sum, in units of 0.00000001, is rounded to the scale
CalculateAiUsageCost(provider_name, model_name, prompt_tokens_count, completion_tokens_count) ==
  LET p == prompt_tokens_count
      c == completion_tokens_count
      Cost(x) == [raised |-> FALSE, cost |-> (x + 50) \div 100]
      CaseNotFound == [raised |-> TRUE, cost |-> 0]
  IN CASE provider_name = "bedrock" ->
            ( CASE "claude-3-sonnet" \in Parts(model_name) -> Cost(p * 300 + c * 1500)
                [] "claude-3-haiku" \in Parts(model_name) -> Cost(p * 25 + c * 125)
                [] "titan" \in Parts(model_name) -> Cost(p * 50 + c * 150)
                [] OTHER -> CaseNotFound )
       [] provider_name = "openai" ->
            ( CASE model_name = "gpt-4" -> Cost(p * 3000 + c * 6000)
                [] model_name = "gpt-3.5-turbo" -> Cost(p * 100 + c * 200)
                [] OTHER -> CaseNotFound )
       [] OTHER -> CaseNotFound

\* the provider / model pairs and token counts track_ai_usage is called with
SqlProviderInputs == {"bedrock", "openai", "claude"}
SqlModelInputs ==
  {"anthropic.claude-3-sonnet-20240229-v1:0", "meta.llama2-13b-chat-v1", "gpt-4", "gpt-4-turbo"}
SqlTokenInputs == {0, 1000}

\* track_ai_usage: the cost is calculated first; an exception leaves the
\* function before the INSERT
TrackAiUsage(provider_name, model_name, prompt_tokens_count, completion_tokens_count) ==
  LET calculated == CalculateAiUsageCost(provider_name, model_name, prompt_tokens_count,
                                         completion_tokens_count)
  IN /\ IF calculated.raised
        THEN aiUsageTracking' = aiUsageTracking
        ELSE /\ Len(aiUsageTracking) < MaxUsage
             /\ aiUsageTracking' = Append(aiUsageTracking,
                  [ai_provider |-> provider_name, ai_model |-> model_name,
                   prompt_tokens |-> prompt_tokens_count,
                   completion_tokens |-> completion_tokens_count,
                   total_tokens |-> prompt_tokens_count + completion_tokens_count,
                   cost_estimate |-> calculated.cost])
     /\ probe' = [NoProbe EXCEPT
                    !.op = "track_ai_usage",
                    !.result = IF calculated.raised THEN "rejected" ELSE "resolved",
                    !.error = IF calculated.raised THEN "case_not_found" ELSE "none",
                    !.sql = [provider |-> provider_name, model |-> model_name,
                             raised |-> calculated.raised]]
     /\ UNCHANGED <<mgrVars, initPc, setVars, callVars, usageRows, chainArg, svcVars, mgrLog, bpConfig,
                    bpEndpoint, built>>

(***************************************************************************)
(* BedrockProvider.buildRequest with formatRequestBody, and                *)
(* buildAnalysisPrompt.  A text is the sequence of its pieces; a number is *)
(* written as its decimal text.                                            *)
(***************************************************************************)
\* the turn delimiters and wrappers of the model families
HumanTurn == "(newline)(newline)Human:"
AssistantTurn == "(newline)(newline)Assistant:"
InstOpen == "<s>[INST] "
InstClose == " [/INST]"
AnthropicVersion == "bedrock-2023-05-31"

\* a || b for numbers: undefined and 0 are falsy
OrNumber(a, b) == IF a \in {UNDEF, "0"} THEN b ELSE a

\* config.stopSequences: not set, or an array (an empty one is truthy)
UndefinedStops == [defined |-> FALSE, items |-> <<>>]
Stops(items) == [defined |-> TRUE, items |-> items]

\* this.config.stopSequences || fallback
OrStops(a, fallback) == IF a.defined THEN a ELSE Stops(fallback)

\* the configs of a provider instance that builds requests
RequestConfigInputs ==
  [modelId : ModelIdInputs, maxTokens : {"2000"}, temperature : {"0.3"},
   topP : {UNDEF, "0", "0.5", "0.9", "1"},
   stopSequences : {UndefinedStops, Stops(<<>>), Stops(<<"END">>)}]

\* the prompts callers pass
PromptInputs == { <<>>, <<"hello">>, <<"(newline)(newline)Human:", "hello">> }

NoBuilt == [op |-> "none"]

\* buildGenericRequest
BuildGenericRequest(cfg, prompt) ==
  [prompt |-> prompt, modelId |-> cfg.modelId, maxTokens |-> cfg.maxTokens,
   temperature |-> cfg.temperature, topP |-> OrNumber(cfg.topP, "0.9")]

\* buildTitanRequest
BuildTitanRequest(cfg, prompt) ==
  [prompt |-> prompt, modelId |-> cfg.modelId, maxTokens |-> cfg.maxTokens,
   temperature |-> cfg.temperature, topP |-> OrNumber(cfg.topP, "0.9"),
   stopSequences |-> OrStops(cfg.stopSequences, <<>>)]

\* buildClaudeRequest
BuildClaudeRequest(cfg, prompt) ==
  [prompt |-> <<HumanTurn, " ">> \o prompt \o <<AssistantTurn>>,
   modelId |-> cfg.modelId, maxTokens |-> cfg.maxTokens,
   temperature |-> cfg.temperature, topP |-> OrNumber(cfg.topP, "0.9"),
   stopSequences |-> OrStops(cfg.stopSequences, <<HumanTurn>>),
   anthropicVersion |-> AnthropicVersion]

\* a variant that sends the prompt of a llama model as it is
LlamaUnwrapped(cfg, prompt) == BuildGenericRequest(cfg, prompt)

\* buildLlamaRequest
BuildLlamaRequest(cfg, prompt) ==
  [prompt |-> <<InstOpen>> \o prompt \o <<InstClose>>,
   modelId |-> cfg.modelId, maxTokens |-> cfg.maxTokens,
   temperature |-> cfg.temperature, topP |-> OrNumber(cfg.topP, "0.9")]

\* buildRequest: switch (this.getModelFamily())
BuildRequest(cfg, prompt) ==
  CASE GetModelFamily(cfg) = "claude" -> BuildClaudeRequest(cfg, prompt)
    [] GetModelFamily(cfg) = "llama" -> BuildLlamaRequest(cfg, prompt)
    [] GetModelFamily(cfg) = "titan" -> BuildTitanRequest(cfg, prompt)
    [] OTHER -> BuildGenericRequest(cfg, prompt)

\* request.stopSequences, request.anthropicVersion of a BedrockRequest
StopsOf(request) ==
  IF "stopSequences" \in DOMAIN request THEN request.stopSequences ELSE UndefinedStops
VersionOf(request) ==
  IF "anthropicVersion" \in DOMAIN request THEN request.anthropicVersion ELSE UNDEF

\* formatRequestBody: the body written to the wire
FormatRequestBody(cfg, request) ==
  CASE GetModelFamily(cfg) = "claude" ->
         [prompt |-> request.prompt, max_tokens_to_sample |-> request.maxTokens,
          temperature |-> request.temperature, top_p |-> request.topP,
          stop_sequences |-> StopsOf(request),
          anthropic_version |-> VersionOf(request)]
    [] GetModelFamily(cfg) = "llama" ->
         [prompt |-> request.prompt, max_gen_len |-> request.maxTokens,
          temperature |-> request.temperature, top_p |-> request.topP]
    [] GetModelFamily(cfg) = "titan" ->
         [inputText |-> request.prompt,
          textGenerationConfig |->
            [maxTokenCount |-> request.maxTokens, temperature |-> request.temperature,
             topP |-> request.topP, stopSequences |-> StopsOf(request)]]
    [] OTHER ->
         [prompt |-> request.prompt, max_tokens |-> request.maxTokens,
          temperature |-> request.temperature, top_p |-> request.topP]

\* generateResponse up to the fetch: buildRequest, then the body callBedrock posts
BuildWireRequest(cfg, prompt) ==
  /\ built' = [op |-> "buildRequest", config |-> cfg, prompt |-> prompt,
               family |-> GetModelFamily(cfg),
               request |-> BuildRequest(cfg, prompt),
               body |-> FormatRequestBody(cfg, BuildRequest(cfg, prompt))]
  /\ UNCHANGED <<mgrVars, initPc, setVars, callVars, usageRows, chainArg, svcVars, mgrLog,
                 bpConfig, bpEndpoint, probe, aiUsageTracking>>

\* the analysis kinds, framework labels and documents callers pass
AnalysisTypeInputs == {"compliance", "gaps", "recommendations", "general", "Gaps", ""}
FrameworkInputs == {UNDEF, "", "SOC 2", "HIPAA"}
DocumentInputs == {"doc-A", "doc-B", ""}

BasePrompt == "You are a compliance expert analyzing documents for regulatory adherence."

\* the value as a template literal prints it: undefined prints 'undefined'
Interpolated(value) == IF value = UNDEF THEN "undefined" ELSE value

\* the head every template starts with
PromptHead(documentContent) ==
  <<BasePrompt, "Document Content:", Interpolated(documentContent)>>

\* the line the three framework-bearing templates share
FrameworkLine(framework) ==
  <<"Framework: ", Interpolated(Or(framework, "General Compliance"))>>

\* a variant whose gaps template has no framework line
GapsWithoutFramework(documentContent, framework) ==
  PromptHead(documentContent) \o <<"Perform a gap analysis to identify:">>

\* the template of case 'gaps'
GapsTemplate(documentContent, framework) ==
  PromptHead(documentContent) \o FrameworkLine(framework)
    \o <<"Perform a gap analysis to identify:">>

\* buildAnalysisPrompt: switch (analysisType)
BuildAnalysisPrompt(documentContent, analysisType, framework) ==
  CASE analysisType = "compliance" ->
         PromptHead(documentContent) \o FrameworkLine(framework)
           \o <<"Analyze this document for compliance with ", Interpolated(framework),
                " requirements. Identify:">>
    [] analysisType = "gaps" -> GapsTemplate(documentContent, framework)
    [] analysisType = "recommendations" ->
         PromptHead(documentContent) \o FrameworkLine(framework)
           \o <<"Provide specific recommendations to improve compliance:">>
    [] OTHER ->
         PromptHead(documentContent)
           \o <<"Provide a comprehensive analysis of this document including compliance status, gaps, and recommendations.">>

\* analyzeDocument up to generateResponse: the prompt it builds
BuildPrompt(documentContent, analysisType, framework) ==
  /\ built' = [op |-> "buildAnalysisPrompt", documentContent |-> documentContent,
               analysisType |-> analysisType, framework |-> framework,
               text |-> BuildAnalysisPrompt(documentContent, analysisType, framework)]
  /\ UNCHANGED <<mgrVars, initPc, setVars, callVars, usageRows, chainArg, svcVars, mgrLog,
                 bpConfig, bpEndpoint, probe, aiUsageTracking>>

(***************************************************************************)
(* Provider health: getProviderStatus tests the registered providers one   *)
(* after the other, awaiting each test; switchToBestProvider awaits the    *)
(* statuses and picks by priority.                                         *)
(***************************************************************************)
\* the text that replaces a credential in a status
MASK == "***masked***"

\* JavaScript truthiness of a config value
Truthy(v) == v \notin {ABSENT, UNDEF, ""}

\* config?.key
Get(config, f) == IF f \in DOMAIN config THEN config[f] ELSE UNDEF

\* the keys getProviderStatus writes over the spread config
MaskedKeys == {"apiKey", "secretAccessKey"}

\* a variant that copies the config as it is
Unmasked(config) == config

\* { ...config, apiKey: config?.apiKey ? '***masked***' : undefined,
\*   secretAccessKey: config?.secretAccessKey ? '***masked***' : undefined }
MaskedConfig(config) ==
  [f \in DOMAIN config \cup MaskedKeys |->
     IF f \in MaskedKeys
     THEN IF Truthy(Get(config, f)) THEN MASK ELSE UNDEF
     ELSE config[f]]

\* status[providerType] of a provider whose test settled
StatusOf(healthy, config) ==
  [present |-> TRUE, healthy |-> healthy,
   model |-> IF Truthy(Get(config, "modelId")) THEN config.modelId ELSE "unknown",
   config |-> MaskedConfig(config)]

\* a variant that walks the types in the order of their declaration
DeclarationOrder == <<"bedrock", "openai", "claude", "azure", "local">>

\* priorityOrder of switchToBestProvider
PriorityOrder == <<"bedrock", "claude", "azure", "openai", "local">>

\* statuses[provider]?.healthy && this.providers.has(provider)
HealthyRegistered(status) ==
  { p \in AIProviderType :
      status[p].present /\ status[p].healthy /\ providers[p].kind # "none" }

\* the first provider of the priority order that passes, or none
BestProvider(status) ==
  LET passing == { i \in 1..Len(PriorityOrder) : PriorityOrder[i] \in HealthyRegistered(status) }
  IN IF passing = {} THEN "none"
     ELSE PriorityOrder[CHOOSE i \in passing : \A j \in passing : i <= j]

\* the entries of the providers map the iteration has not visited
StatusCandidates(status) ==
  { p \in AIProviderType : providers[p].kind # "none" /\ ~status[p].present }

\* the for-of loop takes the next entry and awaits its testConnection, or ends
WalkOn(call, status) ==
  IF StatusCandidates(status) = {}
  THEN mgrLog' = [mgrLog EXCEPT !.statusCall =
                    [call EXCEPT !.status = status, !.awaiting = "none", !.pc = "walked"]]
  ELSE \E q \in StatusCandidates(status) :
         mgrLog' = [mgrLog EXCEPT !.statusCall =
                      [call EXCEPT !.status = status, !.awaiting = q, !.pc = "awaitTest"]]

\* a caller invokes getProviderStatus, directly or through switchToBestProvider
StatusCall(op) ==
  /\ mgrLog.statusCall.pc = "idle"
  /\ Quiescent
  /\ WalkOn([NoStatusCall EXCEPT !.op = op, !.current = currentProvider],
            NoStatusCall.status)
  /\ UNCHANGED <<mgrVars, initPc, setVars, callVars, usageRows, chainArg, bpVars, svcVars>>

GetProviderStatus == StatusCall("getProviderStatus")
SwitchToBestProvider == StatusCall("switchToBestProvider")

\* await provider.testConnection?.() settles: the placeholders report true,
\* BedrockProvider.testConnection reports whether its test request answered
TestConnectionSettles(healthy) ==
  /\ mgrLog.statusCall.pc = "awaitTest"
  /\ Quiescent
  /\ healthy \/ providers[mgrLog.statusCall.awaiting].kind = "bedrock"
  /\ WalkOn(mgrLog.statusCall,
            [mgrLog.statusCall.status EXCEPT ![mgrLog.statusCall.awaiting] =
               StatusOf(healthy, configs[mgrLog.statusCall.awaiting])])
  /\ UNCHANGED <<mgrVars, initPc, setVars, callVars, usageRows, chainArg, bpVars, svcVars>>

\* getProviderStatus returns the statuses; switchToBestProvider, which
\* awaited them, sets currentProvider to the best one or throws
\* 'No healthy providers available'
StatusReturns ==
  /\ mgrLog.statusCall.pc = "walked"
  /\ Quiescent
  /\ LET best == BestProvider(mgrLog.statusCall.status)
         switch == mgrLog.statusCall.op = "switchToBestProvider"
     IN /\ mgrLog' = [mgrLog EXCEPT !.statusCall.pc = "idle",
                                    !.statusCall.result =
                                       IF ~switch THEN "returned"
                                       ELSE IF best = "none" THEN "rejected" ELSE best]
        /\ currentProvider' = IF switch /\ best # "none" THEN best ELSE currentProvider
  /\ UNCHANGED <<providers, configs, fallbackProviders, initPc, setVars, callVars, usageRows,
                 chainArg, bpVars, svcVars>>

(***************************************************************************)
(* AIService: the conversation history kept per project, chatWithDocuments,*)
(* clearConversationHistory, analyzeDocument.                              *)
(***************************************************************************)
\* the values of the DEMO_MODE environment variable
EnvInputs == {"true", "false", "unset"}

\* the projects callers chat about
ProjectInputs == {"proj-1", "proj-2"}

NoSvcLog == [cleared |-> [p \in ProjectInputs |-> {}], analysis |-> "none",
             reached |-> FALSE]

\* a ChatMessage: the user message of call n, or the assistant reply to it
ChatMessage(role, n) == [role |-> role, call |-> n]

\* getConversationHistory(projectId): this.conversationHistory.get(projectId) || []
GetConversationHistory(projectId) ==
  IF conversationHistory[projectId] = 0 THEN <<>>
  ELSE arrays[conversationHistory[projectId]]

\* history: the messages in the arrays, of the calls made for the project
MessagesOf(projectId) ==
  { m \in UNION { {a[i] : i \in 1..Len(a)} : a \in {arrays[r] : r \in 1..Len(arrays)} } :
      chats[m.call].projectId = projectId }

\* conversationHistory = new Map(): no project has a history
NoConversations ==
  /\ conversationHistory = [p \in ProjectInputs |-> 0]
  /\ arrays = <<>>
  /\ chats = <<>>
  /\ svcLog = NoSvcLog

\* chatWithDocuments up to its await: the user message is pushed to the
\* project's array (a new one when the map has none) and the array is set
ChatWithDocuments(projectId) ==
  /\ Len(chats) < MaxChats
  /\ LET n == Len(chats) + 1
         fresh == conversationHistory[projectId] = 0
         history == IF fresh THEN Len(arrays) + 1 ELSE conversationHistory[projectId]
         demo == DemoModeOf(demoEnv)
     IN /\ arrays' = IF fresh THEN Append(arrays, <<ChatMessage("user", n)>>)
                      ELSE [arrays EXCEPT ![history] = Append(@, ChatMessage("user", n))]
        /\ conversationHistory' = [conversationHistory EXCEPT ![projectId] = history]
        /\ chats' = Append(chats, [projectId |-> projectId, history |-> history,
                                   pc |-> IF demo THEN "awaitMock" ELSE "awaitProvider",
                                   result |-> "none"])
        /\ svcLog' = [svcLog EXCEPT !.reached = @ \/ ~demo]
  /\ UNCHANGED <<mgrVars, initPc, setVars, callVars, usageRows, chainArg, bpVars, mgrLog, demoEnv>>

\* chatWithDocuments after its await: the reply (the mock one, or the
\* provider's) is pushed to the array the call holds and the array is set
\* again; a provider failure rejects with 'Failed to get AI response'
ChatReplies(n, ok) ==
  /\ n \in 1..Len(chats)
  /\ chats[n].pc \in {"awaitMock", "awaitProvider"}
  /\ ok \/ chats[n].pc = "awaitProvider"
  /\ IF ok
     THEN /\ arrays' = [arrays EXCEPT ![chats[n].history] = Append(@, ChatMessage("assistant", n))]
          /\ conversationHistory' =
               [conversationHistory EXCEPT ![chats[n].projectId] = chats[n].history]
          /\ chats' = [chats EXCEPT ![n].pc = "returned",
                                    ![n].result = IF chats[n].pc = "awaitMock" THEN "mock"
                                                  ELSE "provider"]
     ELSE /\ chats' = [chats EXCEPT ![n].pc = "rejected"]
          /\ UNCHANGED <<arrays, conversationHistory>>
  /\ UNCHANGED <<mgrVars, initPc, setVars, callVars, usageRows, chainArg, bpVars, mgrLog, demoEnv, svcLog>>

\* clearConversationHistory(projectId): this.conversationHistory.delete(projectId)
ClearConversationHistory(projectId) ==
  /\ conversationHistory' = [conversationHistory EXCEPT ![projectId] = 0]
  /\ svcLog' = [svcLog EXCEPT !.cleared[projectId] = @ \cup MessagesOf(projectId)]
  /\ UNCHANGED <<mgrVars, initPc, setVars, callVars, usageRows, chainArg, bpVars, mgrLog, demoEnv,
                 arrays, chats>>

\* AIService.analyzeDocument: the mock analysis in demo mode, otherwise
\* callAIProvider -> aiProviderManager.generateResponse
ServiceAnalyzeDocument ==
  /\ svcLog' = [svcLog EXCEPT !.analysis = IF DemoModeOf(demoEnv) THEN "mock" ELSE "provider",
                              !.reached = @ \/ ~DemoModeOf(demoEnv)]
  /\ UNCHANGED <<mgrVars, initPc, setVars, callVars, usageRows, chainArg, bpVars, mgrLog, demoEnv,
                 conversationHistory, arrays, chats>>

\* the manager as constructed; the provider instance of the second machine idle
Init ==
  /\ ManagerInit
  /\ bpConfig = DefaultBedrockConfig
  /\ bpEndpoint = EndpointOf(bpConfig.region)
  /\ probe = NoProbe
  /\ aiUsageTracking = <<>>
  /\ built = NoBuilt
  /\ demoEnv = "unset"
  /\ NoConversations

Next ==
  \/ InitializeProviders
  \/ \E config \in BedrockInputs : SetProvider("bedrock", config)
  \/ \E p \in RegisteredInputs \ {"bedrock"}, config \in PlaceholderInputs : SetProvider(p, config)
  \/ SetupBedrockProvider
  \/ SetProviderDone
  \/ \E list \in FallbackInputs : SetFallbackProviders(list)
  \/ \E useProvider \in OverrideInputs : GenerateResponse(useProvider)
  \/ AnalyzeDocument
  \/ DetectComplianceGaps
  \/ CallProvider
  \/ \E ok \in BOOLEAN : ProviderSettles(ok)
  \/ CatchError
  \/ TryFallbackProviders
  \/ ReturnToCaller
  \/ \E usageData \in UsageInputs : TrackUsage(usageData)

Spec == Init /\ [][Next]_vars

(***************************************************************************)
(* A BedrockProvider constructed with any config and used on its own, next *)
(* to the database functions.                                              *)
(***************************************************************************)
ProviderInit ==
  /\ ManagerInit
  /\ bpConfig \in ProviderConfigInputs
  /\ bpEndpoint = EndpointOf(bpConfig.region)
  /\ probe = NoProbe
  /\ aiUsageTracking = <<>>
  /\ built = NoBuilt
  /\ demoEnv = "unset"
  /\ NoConversations

ProviderNext ==
  \/ BedrockInitialize
  \/ \E newConfig \in UpdateInputs : BedrockUpdateConfig(newConfig)
  \/ \E transport \in TransportInputs, wire \in WireInputs :
       BedrockGenerateResponse(transport, wire)
  \/ \E provider_name \in SqlProviderInputs, model_name \in SqlModelInputs,
        prompt_tokens_count \in SqlTokenInputs, completion_tokens_count \in SqlTokenInputs :
       TrackAiUsage(provider_name, model_name, prompt_tokens_count, completion_tokens_count)

ProviderSpec == ProviderInit /\ [][ProviderNext]_vars

(***************************************************************************)
(* The configuration side of the manager on its own: setProvider and       *)
(* updateProviderConfig.                                                   *)
(***************************************************************************)
ConfigNext ==
  \/ InitializeProviders
  \/ \E config \in BedrockInputs : SetProvider("bedrock", config)
  \/ \E p \in RegisteredInputs \ {"bedrock"}, config \in PlaceholderInputs : SetProvider(p, config)
  \/ SetupBedrockProvider
  \/ SetProviderDone
  \/ \E p \in RegisteredInputs, updates \in ConfigUpdateInputs : UpdateProviderConfig(p, updates)

ConfigSpec == Init /\ [][ConfigNext]_vars

(***************************************************************************)
(* The health side of the manager on its own: providers registered with    *)
(* configs that carry credentials, getProviderStatus, switchToBestProvider.*)
(***************************************************************************)
StatusNext ==
  \/ InitializeProviders
  \/ \E config \in SecretBedrockInputs : SetProvider("bedrock", config)
  \/ \E p \in PlaceholderTypes, config \in SecretPlaceholderInputs : SetProvider(p, config)
  \/ SetupBedrockProvider
  \/ SetProviderDone
  \/ GetProviderStatus
  \/ SwitchToBestProvider
  \/ \E healthy \in BOOLEAN : TestConnectionSettles(healthy)
  \/ StatusReturns

StatusSpec == Init /\ [][StatusNext]_vars

(***************************************************************************)
(* A BedrockProvider building wire requests and analysis prompts.          *)
(***************************************************************************)
RequestNext ==
  \/ \E cfg \in RequestConfigInputs, prompt \in PromptInputs : BuildWireRequest(cfg, prompt)
  \/ \E documentContent \in DocumentInputs, analysisType \in AnalysisTypeInputs,
        framework \in FrameworkInputs :
       BuildPrompt(documentContent, analysisType, framework)

RequestSpec == Init /\ [][RequestNext]_vars

(***************************************************************************)
(* AIService used by the pages, next to a manager nobody else calls.       *)
(***************************************************************************)
ServiceInit ==
  /\ ManagerInit
  /\ bpConfig = DefaultBedrockConfig
  /\ bpEndpoint = EndpointOf(bpConfig.region)
  /\ probe = NoProbe
  /\ aiUsageTracking = <<>>
  /\ built = NoBuilt
  /\ demoEnv \in EnvInputs
  /\ NoConversations

ServiceNext ==
  \/ \E projectId \in ProjectInputs : ChatWithDocuments(projectId)
  \/ \E n \in 1..MaxChats, ok \in BOOLEAN : ChatReplies(n, ok)
  \/ \E projectId \in ProjectInputs : ClearConversationHistory(projectId)
  \/ ServiceAnalyzeDocument

ServiceSpec == ServiceInit /\ [][ServiceNext]_vars

(***************************************************************************)
(* Scheduling: the event loop runs every continuation that is ready, and   *)
(* an invocation that was started settles, one way or the other.  Callers  *)
(* are not obliged to call anything.                                       *)
(***************************************************************************)
FairSpec ==
  /\ Spec
  /\ WF_vars(InitializeProviders)
  /\ WF_vars(SetupBedrockProvider)
  /\ WF_vars(SetProviderDone)
  /\ WF_vars(CallProvider)
  /\ WF_vars(\E ok \in BOOLEAN : ProviderSettles(ok))
  /\ WF_vars(CatchError)
  /\ WF_vars(TryFallbackProviders)

(***************************************************************************)
(* Scheduling when a remote endpoint may stay silent: nothing in the code  *)
(* ends a pending fetch, so a Bedrock invocation need not settle; the      *)
(* placeholder providers are async functions and resolve at once.          *)
(***************************************************************************)
PlaceholderSettles == ~inflight.canFail /\ ProviderSettles(TRUE)

SilentSpec ==
  /\ Spec
  /\ WF_vars(InitializeProviders)
  /\ WF_vars(SetupBedrockProvider)
  /\ WF_vars(SetProviderDone)
  /\ WF_vars(CallProvider)
  /\ WF_vars(PlaceholderSettles)
  /\ WF_vars(CatchError)
  /\ WF_vars(TryFallbackProviders)

(***************************************************************************)
(* The claims.                                                             *)
(***************************************************************************)
\* the call in progress is a generateResponse call
Generating == callOp = "generateResponse" /\ callPc \notin {"idle"}

\* C1: every generateResponse call ends in one terminal outcome: whenever a call
\* is in progress, it eventually settles (resolved or rejected), for every chain
\* and every pattern of provider failures.
C1_CallSettles == Generating ~> (callPc = "done")

\* the failures the history holds, in attempt order
Failures == [i \in DOMAIN attempts |-> [kind |-> attempts[i].err, provider |-> attempts[i].p]]

\* the chain holds a provider whose generateResponse always resolves
HealthyIn(chain) == \E k \in DOMAIN chain : providers[chain[k]].kind = "placeholder"

\* the primary of a generateResponse call has just failed and nothing else was tried
PrimaryFailed == Generating /\ callPc = "catch" /\ loops = <<>> /\ ~callInfo.slid

\* the call returned a response, or the chain was reconfigured while it ran
ReturnedOrReconfigured ==
  (callPc = "done" /\ outcome.type = "resolved") \/ callInfo.chainChanges > 0

\* C2: within one generateResponse call no provider is attempted more than once,
\* a chain entry equal to the primary included.
C2_NoProviderTwice ==
  Generating => \A i, j \in DOMAIN attempts : i # j => attempts[i].p # attempts[j].p

C4_ErrorCarriesEveryFailure ==
  Generating /\ callPc = "done" /\ outcome.type = "rejected" /\ ~callInfo.full =>
    ErrorAttempts(outcome.error) = Failures

\* C5: once the primary has failed and the chain holds a provider that succeeds
\* when invoked, the call returns one response, whatever the entries before that
\* provider do.
C5_HealthyEntryAnswers ==
  (PrimaryFailed /\ HealthyIn(fallbackProviders)) ~> ReturnedOrReconfigured

\* C6: when a generateResponse call has settled, the usage records end with one
\* record per attempt of the call, in attempt order, failed attempts included.
C6_UsageRecordPerAttempt ==
  Generating /\ callPc = "done" /\ ~callInfo.full =>
    /\ Len(usageRows) >= Len(attempts)
    /\ \A i \in DOMAIN attempts :
         usageRows[Len(usageRows) - Len(attempts) + i] =
           [aiProvider |-> attempts[i].p, success |-> attempts[i].res = "ok"]

\* C7: when the primary has no registered instance and the chain holds a
\* registered provider that succeeds when invoked, the call returns a response
\* instead of rejecting or running on.
C7_MissingPrimaryFailsOver ==
  (PrimaryFailed /\ lastError.kind = "NotInitialized" /\ HealthyIn(fallbackProviders))
    ~> ReturnedOrReconfigured

\* C8: the first provider attempted is the override when one is given, the
\* current provider otherwise; in both cases a failure of it is followed by the
\* first entry of the configured chain, and the call is rejected with the first
\* provider's own error only when the chain was empty.
C8_OverrideThenSameFailover ==
  Generating =>
    LET first == IF callInfo.useProvider # "none" THEN callInfo.useProvider
                 ELSE callInfo.current
    IN /\ primary = first
       /\ attempts # <<>> => attempts[1].p = first /\ attempts[1].pos = 0
       /\ Len(attempts) >= 2 =>
            /\ attempts[1].res = "failed"
            /\ callInfo.iterated # <<>>
            /\ attempts[2].p = callInfo.iterated[1] /\ attempts[2].pos = 1
       /\ callPc = "done" /\ outcome.type = "rejected" =>
            \/ outcome.error.kind = "AllProvidersFailed" /\ callInfo.iterated # <<>>
            \/ /\ outcome.error = [kind |-> attempts[1].err, provider |-> first]
               /\ Len(attempts) = 1

\* C8 witness: an override that is not the current provider was attempted first
\* and failed, and the first chain entry was attempted next
C8_Witness ==
  /\ Generating /\ callInfo.useProvider \notin {"none", callInfo.current}
  /\ Len(attempts) >= 2 /\ attempts[1].p = callInfo.useProvider
  /\ attempts[1].res = "failed" /\ attempts[2].p = callInfo.iterated[1]
  /\ attempts[2].p # callInfo.current

\* C9: analyzeDocument and detectComplianceGaps reject only when every entry of
\* the fallback chain that offers the operation has been attempted and has failed.
C9_AnalysisFailsOver ==
  callPc = "done" /\ callOp \in {"analyzeDocument", "detectComplianceGaps"}
                  /\ outcome.type = "rejected" =>
    \A k \in DOMAIN fallbackProviders :
      HasMethod(providers[fallbackProviders[k]], callOp) =>
        \E i \in DOMAIN attempts : /\ attempts[i].p = fallbackProviders[k]
                                   /\ attempts[i].res = "failed"

\* C10: while setProvider("bedrock", cfg) is in progress, the stored config and
\* the registered instance of bedrock are the pair from before the call or the
\* pair the call installs.
C10_AtomicReconfiguration ==
  setPc # "idle" /\ setArg.p = "bedrock" /\ initPc = "done" =>
    <<configs["bedrock"], providers["bedrock"]>> \in
      { <<setArg.oldConfig, setArg.oldInstance>>,
        <<setArg.merged, BedrockInstance(setArg.merged)>> }

\* C11: an invocation that is pending does not stay pending: when the provider
\* never responds the attempt is ended (by the configured timeout) and the call
\* moves on, so a generateResponse call never waits for a provider forever.
C11_SilentProviderTimesOut ==
  (Generating /\ callPc = "awaitCall") ~> (callPc # "awaitCall")

\* every order in which the five tag checks can be made
CheckOrders == { f \in [DOMAIN TagChecks -> DOMAIN TagChecks] :
                   \A i, j \in DOMAIN TagChecks : i # j => f[i] # f[j] }
Reordered(f) == [i \in DOMAIN TagChecks |-> TagChecks[f[i]]]

\* C12: the family getModelFamily returns for a model id is the family every
\* reordering of its tag checks returns for that id, ids in any letter case and
\* ids with several vendor tags included.
C12_FamilyOrderIndependent ==
  probe.op = "generateResponse" =>
    \A f \in CheckOrders : ClassifyBy(Reordered(f), probe.config.modelId) = probe.family

\* the instance's generateResponse returned a value
Returned == probe.op = "generateResponse" /\ probe.result = "resolved"

\* the usage block of an AIResponse with all counts zero
ZeroUsage ==
  [defined |-> TRUE, prompt_tokens |-> 0, completion_tokens |-> 0, total_tokens |-> 0]

\* C13: a wire response with no usage block normalizes, for every model family,
\* to a response whose usage is present with all three counts zero.
C13_MissingUsageIsZeroed ==
  Returned /\ ~probe.wire.usage.defined => probe.canonical.usage = ZeroUsage

\* the wire response has no text under any name and no stop reason
NoTextField ==
  /\ probe.wire.completion = UNDEF /\ probe.wire.generation = UNDEF
  /\ probe.wire.text = UNDEF /\ probe.wire.outputText = UNDEF
  /\ probe.wire.stop_reason = UNDEF /\ probe.wire.completionReason = UNDEF

\* C14: for every model family a wire response without any text field
\* normalizes to content "" and stop reason "finished".
C14_NoTextIsEmptyFinished ==
  Returned /\ NoTextField =>
    probe.canonical.content = "" /\ probe.canonical.stopReason = "finished"

\* C15: generateResponse rejects on a rejected fetch, a status that is not ok
\* and a body that cannot be used, and the value it returns carries its text
\* and its stop reason.
C15_NoPartialResponse ==
  probe.op = "generateResponse" =>
    /\ probe.transport # "body" => probe.result = "rejected"
    /\ probe.result = "resolved" =>
         probe.response.completion # UNDEF /\ probe.response.stop_reason # UNDEF

\* C16: generateResponse on an instance whose config has no region or no model
\* id fails with a configuration error before anything is fetched.
C16_ConfigCheckedOnInvoke ==
  probe.op = "generateResponse" /\ (probe.config.region = "" \/ probe.config.modelId = "") =>
    probe.result = "rejected" /\ probe.error = "ConfigError" /\ ~probe.fetched

\* C17: track_ai_usage never fails over a price: for every provider / model pair,
\* priced or not, it returns after inserting the usage row, and the row of a
\* pair without a price entry has cost zero.
C17_UnknownPriceCostsZero ==
  probe.op = "track_ai_usage" =>
    /\ probe.result = "resolved"
    /\ aiUsageTracking # <<>>
    /\ Last(aiUsageTracking).ai_provider = probe.sql.provider
    /\ Last(aiUsageTracking).ai_model = probe.sql.model

\* C18: a setProvider call that rejects leaves the stored config and the
\* registered instance of its provider, and currentProvider, as they were
\* before the call.
C18_FailedSetProviderChangesNothing ==
  [][ setPc = "awaitSetup" /\ setPc' = "idle" =>
        /\ configs'[setArg.p] = setArg.oldConfig
        /\ providers'[setArg.p] = setArg.oldInstance
        /\ currentProvider' = currentProvider ]_vars

\* C19: when no setProvider call is in progress, the stored config of every
\* registered provider is the config its registered instance was built from,
\* the one of the latest setProvider call that succeeded.
C19_LastWriteWins ==
  setPc = "idle" =>
    \A p \in AIProviderType :
      providers[p].kind # "none" => configs[p] = providers[p].config

\* C20: every entry of the fallback chain has a registered instance; the chain
\* changes only in a setFallbackProviders call, which makes it the list passed
\* without the identifiers that are unregistered at that moment, in the list's
\* order; a registration that comes later adds nothing, and no step of a
\* generateResponse call changes the chain.
C20_ChainOfRegistered ==
  /\ [](\A k \in DOMAIN fallbackProviders : providers[fallbackProviders[k]].kind # "none")
  /\ [][ fallbackProviders' # fallbackProviders \/ chainArg' # chainArg =>
          /\ fallbackProviders' =
               SelectSeq(chainArg', LAMBDA p : providers[p].kind # "none")
          /\ UNCHANGED <<providers, callPc, loops, attempts, outcome>> ]_vars

\* C20 witness: bedrock was not registered when the list [bedrock, openai] was
\* passed and was dropped; it is registered now and not in the chain, which a
\* generateResponse call has used
C20_Witness ==
  /\ chainArg = <<"bedrock", "openai">> /\ fallbackProviders = <<"openai">>
  /\ providers["bedrock"].kind # "none"
  /\ Generating /\ Len(attempts) >= 2 /\ attempts[2].p = "openai"

\* C21: registration is asynchronous.  While the constructor's background
\* initialization is pending, bedrock has no instance and is in no chain;
\* an attempt on bedrock made then fails at once with 'Provider bedrock not
\* initialized' instead of waiting, with an empty chain the call rejects
\* with that error, and setFallbackProviders drops bedrock from its list.
NotInitializedBedrock == [kind |-> "NotInitialized", provider |-> "bedrock"]

C21_UnregisteredUntilInitialized ==
  /\ [](initPc = "pending" =>
          /\ providers["bedrock"].kind = "none"
          /\ \A i \in 1..Len(fallbackProviders) : fallbackProviders[i] # "bedrock")
  /\ [][initPc = "pending" =>
          /\ (callPc = "start" /\ callPc' # "start" /\ TopProvider = "bedrock")
             => (callPc' = "catch" /\ lastError' = NotInitializedBedrock)
          /\ (callPc = "catch" /\ callPc' # "catch" /\ loops = <<>>
              /\ fallbackProviders = <<>> /\ lastError = NotInitializedBedrock)
             => (callPc' = "done" /\ outcome' = Rejected(NotInitializedBedrock))
          /\ (chainArg' # chainArg)
             => fallbackProviders' =
                  SelectSeq(chainArg', LAMBDA p : p # "bedrock" /\ providers[p].kind # "none")
     ]_vars

\* bedrock asked for and put in a chain before the initialization completed
C21_Witness ==
  /\ initPc = "pending"
  /\ callPc = "done" /\ callOp = "generateResponse" /\ primary = "bedrock"
  /\ outcome = Rejected(NotInitializedBedrock)
  /\ chainArg = <<"bedrock">>
  /\ fallbackProviders = <<>>

\* C22: after clearConversationHistory(p) has returned, the history of p
\* holds no message that was added before the clear, also when a
\* chatWithDocuments call for p was awaiting its reply at the clear.
C22_ClearedMessagesStayGone ==
  \A p \in ProjectInputs :
    \A i \in 1..Len(GetConversationHistory(p)) :
      GetConversationHistory(p)[i] \notin svcLog.cleared[p]

\* C23: the history of every project is made of (user message, assistant
\* reply) pairs: each assistant reply directly follows the user message it
\* answers, also when calls for the project overlap.
C23_ReplyFollowsItsMessage ==
  \A p \in ProjectInputs :
    \A i \in 1..Len(GetConversationHistory(p)) :
      GetConversationHistory(p)[i].role = "assistant" =>
        /\ i > 1
        /\ GetConversationHistory(p)[i - 1] =
             ChatMessage("user", GetConversationHistory(p)[i].call)

\* C24: updateProviderConfig(p, updates) rejects and changes nothing when p
\* has no stored config; when it succeeds, getProviderConfig(p) is the
\* previous config overridden by updates and currentProvider is p, also
\* when another provider was current before the call.
C24_UpdateOverridesPrevious ==
  [][ /\ (mgrLog'.update # mgrLog.update /\ mgrLog'.update.previous = NoConfig)
         => (mgrLog'.update.result = "rejected" /\ UNCHANGED <<mgrVars, setVars>>)
      /\ (mgrLog.update.result = "pending" /\ mgrLog'.update.result = "resolved")
         => /\ configs'[mgrLog.update.p] =
                 Spread(mgrLog.update.previous, mgrLog.update.updates)
            /\ currentProvider' = mgrLog.update.p
    ]_vars

\* an update that succeeded for a provider that was not the current one
C24_Witness ==
  /\ mgrLog.update.result = "resolved"
  /\ mgrLog.update.p = "openai"
  /\ mgrLog.update.current = "bedrock"
  /\ currentProvider = "openai"

\* C25: switchToBestProvider sets currentProvider to the first provider, in
\* the order bedrock, claude, azure, openai, local, that is registered and
\* was reported healthy, and returns it; when none is, it rejects and
\* leaves currentProvider as it is.
RankOf(p) ==
  CASE p = "bedrock" -> 1 [] p = "claude" -> 2 [] p = "azure" -> 3
    [] p = "openai" -> 4 [] OTHER -> 5

C25_BestHealthyByPriority ==
  [][ (mgrLog.statusCall.pc = "walked" /\ mgrLog'.statusCall.pc = "idle"
       /\ mgrLog.statusCall.op = "switchToBestProvider")
      => IF HealthyRegistered(mgrLog.statusCall.status) = {}
         THEN /\ mgrLog'.statusCall.result = "rejected"
              /\ currentProvider' = currentProvider
         ELSE /\ currentProvider' \in HealthyRegistered(mgrLog.statusCall.status)
              /\ \A q \in HealthyRegistered(mgrLog.statusCall.status) :
                    RankOf(currentProvider') <= RankOf(q)
              /\ mgrLog'.statusCall.result = currentProvider'
    ]_vars

\* openai was current; claude and openai are healthy, bedrock is not: claude is chosen
C25_Witness ==
  /\ mgrLog.statusCall.op = "switchToBestProvider"
  /\ mgrLog.statusCall.pc = "idle"
  /\ mgrLog.statusCall.result = "claude"
  /\ mgrLog.statusCall.current = "openai"
  /\ currentProvider = "claude"
  /\ mgrLog.statusCall.status["openai"].present
  /\ mgrLog.statusCall.status["bedrock"].present
  /\ ~mgrLog.statusCall.status["bedrock"].healthy

\* C30: a status returned by getProviderStatus has apiKey and secretAccessKey
\* undefined or equal to the mask, never the configured value.
C30_StatusMasksSecrets ==
  \A p \in AIProviderType :
    mgrLog.statusCall.status[p].present =>
      \A f \in MaskedKeys :
        Get(mgrLog.statusCall.status[p].config, f) \in {UNDEF, MASK}

\* a status of a provider whose stored config holds a credential
C30_Witness ==
  /\ mgrLog.statusCall.result = "returned"
  /\ mgrLog.statusCall.status["bedrock"].present
  /\ Get(configs["bedrock"], "secretAccessKey") = "aws-secret-1"
  /\ mgrLog.statusCall.status["bedrock"].config.secretAccessKey = MASK
  /\ mgrLog.statusCall.status["openai"].present
  /\ Get(configs["openai"], "apiKey") = "sk-live-1"
  /\ mgrLog.statusCall.status["openai"].config.apiKey = MASK
  /\ mgrLog.statusCall.status["openai"].config.secretAccessKey = UNDEF

WirePrompt(body) == IF "inputText" \in DOMAIN body THEN body.inputText ELSE body.prompt
WireTopP(body) ==
  IF "textGenerationConfig" \in DOMAIN body THEN body.textGenerationConfig.topP
  ELSE body.top_p

\* C27: the wire request follows the rule of the model's family.  claude:
\* the prompt between the human-turn and assistant-turn delimiters, the
\* anthropic version tag, and the human-turn delimiter as the only stop
\* sequence unless the config supplies stop sequences; llama: the prompt in
\* the [INST] pair and no stop-sequence field; titan and every other
\* family: the prompt unchanged.
C27_RequestFollowsFamilyRule ==
  built.op = "buildRequest" =>
    CASE built.family = "claude" ->
           /\ built.body.prompt = <<HumanTurn, " ">> \o built.prompt \o <<AssistantTurn>>
           /\ built.body.anthropic_version = AnthropicVersion
           /\ built.body.stop_sequences.defined
           /\ built.body.stop_sequences.items =
                IF built.config.stopSequences.defined
                THEN built.config.stopSequences.items ELSE <<HumanTurn>>
      [] built.family = "llama" ->
           /\ built.body.prompt = <<InstOpen>> \o built.prompt \o <<InstClose>>
           /\ DOMAIN built.body \cap {"stop_sequences", "stopSequences", "textGenerationConfig"} = {}
      [] OTHER -> WirePrompt(built.body) = built.prompt

\* a llama request built for a config that supplies stop sequences
C27_Witness ==
  /\ built.op = "buildRequest"
  /\ built.family = "llama"
  /\ built.config.stopSequences = Stops(<<"END">>)
  /\ built.prompt = <<"hello">>
  /\ built.body.prompt = <<InstOpen, "hello", InstClose>>

\* C28: for every family the top-p value of the wire request is the
\* configured top-p whenever one is configured, the value 0 included, and
\* the default 0.9 only when none is configured.
C28_TopPAsConfigured ==
  built.op = "buildRequest" =>
    WireTopP(built.body) = IF built.config.topP # UNDEF THEN built.config.topP ELSE "0.9"

\* the template a prompt text was made from, by its instruction line
TemplateOf(text) ==
  CASE \E i \in 1..Len(text) : text[i] = "Analyze this document for compliance with " -> "compliance"
    [] \E i \in 1..Len(text) : text[i] = "Perform a gap analysis to identify:" -> "gaps"
    [] \E i \in 1..Len(text) : text[i] = "Provide specific recommendations to improve compliance:"
         -> "recommendations"
    [] OTHER -> "general"

\* the text contains the piece (every text contains the empty one)
Contains(text, piece) == piece = "" \/ \E i \in 1..Len(text) : text[i] = piece

\* C29: compliance, gaps and recommendations select their own template and
\* every other kind the general one; the prompt of a framework-bearing kind
\* contains the framework label when one is supplied and 'General
\* Compliance' when none is.
C29_PromptByKind ==
  built.op = "buildAnalysisPrompt" =>
    /\ TemplateOf(built.text) =
         IF built.analysisType \in {"compliance", "gaps", "recommendations"}
         THEN built.analysisType ELSE "general"
    /\ built.analysisType \in {"compliance", "gaps", "recommendations"} =>
         Contains(built.text, IF built.framework = UNDEF THEN "General Compliance"
                              ELSE built.framework)

\* a gaps prompt built without a framework label
C29_Witness ==
  /\ built.op = "buildAnalysisPrompt"
  /\ built.analysisType = "gaps"
  /\ built.framework = UNDEF
  /\ Contains(built.text, "General Compliance")
  /\ TemplateOf(built.text) = "gaps"

====
